---- MODULE Spec2Model ----
(***************************************************************************)
(* Model of the che-khabar news core: the feed change tracker              *)
(* (services/rss_fetcher.py), the bounded item store, its poller and the   *)
(* polling task (services/news_service.py), the clustering coordinator     *)
(* (services/clustering_service.py) and the semantic search                *)
(* (services/semantic_search.py).                                          *)
(*                                                                         *)
(* Five specifications share the module.  Spec drives the poller of a      *)
(* started service: one cycle is fetch_feed (suspended at its awaits), the *)
(* synchronous insertion into the store and the sleep.  SpecPoll adds the  *)
(* calls that start and stop the polling task.  SpecCluster drives the     *)
(* public operations of NewsClusteringService, each as one step; SpecLock  *)
(* splits cluster_items inside its lock block and runs the topic views     *)
(* next to it.  SpecSearch applies SemanticSearchService.search to the     *)
(* arguments of one call.                                                  *)
(***************************************************************************)
EXTENDS Integers, Sequences, FiniteSets, TLC

VARIABLES
    latest_hash,      \* FeedState.latest_hash
    last_fetch_time,  \* FeedState.last_fetch_time
    seen_ids,         \* FeedState.seen_ids
    news_store,       \* NewsService.news_store, index 1 is the left end of the deque
    pc,               \* the polling task: "none" (never created), suspended at "get",
                      \* "closing", "sleep" or an await of the insert loop ("sending"),
                      \* or "done"
    fresh_items,      \* the list fetch_feed returns, held while the client closes
    response,         \* the outcome of client.get in the fetch in flight: "none", "ok", "failed"
    now,              \* the wall clock, advanced by the poller's sleep
    feed,             \* history: the raw feed of the last fetch that got a 200 response
    repeat,           \* history: the fetch in flight got the same raw feed as that one
    emitted,          \* history: how many times each guid was returned by fetch_feed
    inserted_log,     \* history: the items appended to the store, in insertion order
    fetch_raised,     \* history: the fetch in flight caught an exception of its entry loop
    failed_entry,     \* history: the position of the entry for which the embedding
                      \* provider raised in the fetch in flight, 0 when it did not
    cancel_req,       \* cancel() was called on the polling task
    stop_pc,          \* stop_polling: "idle", or "awaiting" the cancelled task
    api_log,          \* history: the last of start_polling, stop_polling to return
    starts,           \* history: the number of start_polling calls
    orphans,          \* history: the tasks replaced in _polling_task before they were done
    state,            \* NewsClusteringService.state (ClusteringState)
    item_topics,      \* NewsClusteringService.item_topics
    last_call,        \* history: the last coordinator operation and its outcome
    embedded_adds,    \* history: add_item calls with an embedding since the last successful cluster
    lock,             \* NewsClusteringService.lock: the threads inside a "with self.lock" block
    cpc,              \* where the thread in cluster_items stands: "idle", "waiting" (for
                      \* the lock), "fit", "store", "exit"
    fit_ids,          \* cluster_items' local ids: the ids handed to fit_transform
    todo,             \* the pairs of zip(ids, topics) not yet written to item_topics
    call_pre,         \* history: item_topics when the cluster call in its store loop began
    call_post,        \* history: item_topics as that call leaves it
    view_log,         \* the topic view inside its lock block: its call, its result and,
                      \* as history, the mappings the result may be computed from
    sc_read,          \* the thread inside should_cluster between its two reads of state:
                      \* None, or the value it read for needs_clustering
    sc_result,        \* what the last should_cluster call returned; None before the first
    s_in,             \* the arguments of a SemanticSearchService.search call
    s_out,            \* what that call returned or raised; None before the call
    query_log         \* history: the last query a request handler ran on the news
                      \* service, whether it raised, and where the poller stood

taskVars == <<cancel_req, stop_pc, api_log, starts, orphans>>
newsVars == <<latest_hash, last_fetch_time, seen_ids, news_store, pc, fresh_items,
              response, now, feed, repeat, emitted, inserted_log, fetch_raised,
              failed_entry, taskVars>>
clusterVars == <<state, item_topics, last_call, embedded_adds>>
lockVars == <<lock, cpc, fit_ids, todo, call_pre, call_post, view_log, sc_read, sc_result>>
searchVars == <<s_in, s_out, query_log>>
nonNewsVars == <<clusterVars, lockVars, searchVars>>
nonClusterVars == <<newsVars, lockVars, searchVars>>
vars == <<latest_hash, last_fetch_time, seen_ids, news_store, pc, fresh_items,
          response, now, feed, repeat, emitted, inserted_log, fetch_raised, failed_entry,
          cancel_req, stop_pc, api_log, starts, orphans,
          state, item_topics, last_call, embedded_adds,
          lock, cpc, fit_ids, todo, call_pre, call_post, view_log, sc_read, sc_result,
          s_in, s_out, query_log>>

(***************************************************************************)
(* Bounds of the model.                                                    *)
(***************************************************************************)
\* settings.MAX_STORED_ARTICLES, scaled down from the deployment's 100
MAX_STORED_ARTICLES == 2
\* the longest raw feed the transport delivers
MaxFeedLen == 2
\* the number of sleeps the poller takes
MaxTime == 1
\* the number of start_polling calls
MaxStarts == 2
\* the largest count passed to get_latest_news
MaxCount == 3
\* the cap on items_since_last_cluster
MaxAdds == 3

\* cluster_threshold, as the tests construct the coordinator
CLUSTER_THRESHOLD == 2

(***************************************************************************)
(* Optional values: None is the empty tuple, a present value a 1-tuple.    *)
(***************************************************************************)
NoneValue == <<>>
Some(v) == <<v>>

(***************************************************************************)
(* Raw feed entries.  A missing or empty field is "", a missing or         *)
(* unparseable publish date is 0; any other pub is the parsed time.        *)
(***************************************************************************)
Entries ==
    { [id |-> "a", link |-> "l1", title |-> "alpha", summary |-> "one", pub |-> 3],
      [id |-> "b", link |-> "l2", title |-> "", summary |-> "", pub |-> 1],
      [id |-> "", link |-> "l3", title |-> "Alpha", summary |-> "", pub |-> 0],
      [id |-> "", link |-> "", title |-> "gamma", summary |-> "", pub |-> 2] }

RECURSIVE SeqsUpTo(_, _)
SeqsUpTo(S, n) ==
    IF n = 0 THEN { <<>> }
    ELSE LET shorter == SeqsUpTo(S, n - 1)
         IN  shorter \cup { Append(s, e) : s \in { t \in shorter : Len(t) = n - 1 }, e \in S }

Feeds == SeqsUpTo(Entries, MaxFeedLen)

\* hashlib.sha1(str(entry.link).encode()).hexdigest(), taken as collision free
Sha1(link) == "sha1:" \o link

\* the guid of an entry: its id when truthy, else the digest of its link
Guid(entry) == IF entry.id # "" THEN entry.id ELSE Sha1(entry.link)

\* entry.link raises AttributeError when the entry has no link; reached only
\* when the id is falsy
GuidRaises(entry) == entry.id = "" /\ entry.link = ""

Guids == { Guid(e) : e \in { x \in Entries : ~GuidRaises(x) } }

(***************************************************************************)
(* generate_latest_hash: "" for a feed without entries, else the digest of *)
(* the first entry's (id, title, link, published).                         *)
(***************************************************************************)
EmptyHash == <<>>
NoHash == <<"None">>

generate_latest_hash(f) ==
    IF Len(f) = 0 THEN EmptyHash
    ELSE <<"sha1", f[1].id, f[1].title, f[1].link, f[1].pub>>

\* Python truth value of state.latest_hash: None and "" are falsy
HashTruthy(h) == h # NoHash /\ h # EmptyHash

(***************************************************************************)
(* fetch_feed, lines 52-90: the loop over the entries.                     *)
(* failAt is the position of the entry for which settings.model.encode     *)
(* raises (0: the provider never fails).                                   *)
(***************************************************************************)
\* mutant of Published: a date that does not parse is kept as it came
PublishedKeepsUnparsed(entry, t) == [aware |-> FALSE, t |-> entry.pub]

\* lines 60-68: a parsed date gives a naive datetime, any failure the aware now()
Published(entry, t) ==
    IF entry.pub = 0 THEN [aware |-> TRUE, t |-> t]
    ELSE [aware |-> FALSE, t |-> entry.pub]

\* line 73: " ".join(filter(None, [title, summary])) is non-empty
HasText(entry) == entry.title # "" \/ entry.summary # ""

MakeItem(entry, t) ==
    [ id        |-> Guid(entry),
      published |-> Published(entry, t),
      title     |-> entry.title,
      url       |-> entry.link,
      summary   |-> entry.summary,
      embedding |-> IF HasText(entry) THEN "ok" ELSE "none" ]

\* mutant of AlreadySeen: the seen_ids check never skips an entry
AlreadySeenNever(guid, seen) == FALSE

\* lines 55-56: the seen_ids check
AlreadySeen(guid, seen) == guid \in seen

RECURSIVE ProcessEntries(_, _, _, _, _, _)
ProcessEntries(f, i, seen, fresh, failAt, t) ==
    IF i > Len(f) THEN [seen |-> seen, fresh |-> fresh, raised |-> FALSE, failed |-> 0]
    ELSE IF GuidRaises(f[i])
         THEN [seen |-> seen, fresh |-> fresh, raised |-> TRUE, failed |-> 0]
    ELSE IF AlreadySeen(Guid(f[i]), seen) THEN ProcessEntries(f, i + 1, seen, fresh, failAt, t)
    ELSE LET seen2 == seen \cup { Guid(f[i]) }
         IN  IF HasText(f[i]) /\ failAt = i
             THEN [seen |-> seen2, fresh |-> fresh, raised |-> TRUE, failed |-> i]
             ELSE ProcessEntries(f, i + 1, seen2, Append(fresh, MakeItem(f[i], t)), failAt, t)

\* mutant of Unchanged: the hash short-circuit is never taken
UnchangedNever(h, stored) == FALSE

\* lines 37-40: the feed is taken as unchanged
Unchanged(h, stored) == HashTruthy(stored) /\ h = stored

(***************************************************************************)
(* fetch_feed, lines 33-100, for a 200 response: the new FeedState and the *)
(* returned list.  Any exception of the loop is caught at line 98 and the  *)
(* call returns [].                                                        *)
(***************************************************************************)
ProcessFeed(f, failAt, t) ==
    LET h == generate_latest_hash(f)
    IN  IF Unchanged(h, latest_hash)
        THEN [hash |-> latest_hash, time |-> last_fetch_time, seen |-> seen_ids,
              result |-> <<>>, raised |-> FALSE, failed |-> 0]
        ELSE LET r == ProcessEntries(f, 1, seen_ids, <<>>, failAt, t)
             IN  [hash |-> h, time |-> Some(t), seen |-> r.seen,
                  result |-> IF r.raised THEN <<>> ELSE r.fresh, raised |-> r.raised,
                  failed |-> r.failed]

\* mutant of FailedFetch: the time of the fetch is recorded before the status is looked at
FailedFetchStampsTime ==
    [hash |-> latest_hash, time |-> Some(now), seen |-> seen_ids, result |-> <<>>]

\* fetch_feed, lines 27-31 and 95-100: a status other than 200, a timeout or
\* another exception of client.get; the FeedState is not touched
FailedFetch ==
    [hash |-> latest_hash, time |-> last_fetch_time, seen |-> seen_ids, result |-> <<>>]

(***************************************************************************)
(* The store: deque(maxlen=MAX_STORED_ARTICLES).                           *)
(***************************************************************************)
\* mutant of AppendLeft: a full deque discards the item at its left end
AppendLeftDropNewest(store, item) ==
    IF Len(store) >= MAX_STORED_ARTICLES
    THEN <<item>> \o SubSeq(store, 2, Len(store))
    ELSE <<item>> \o store

\* deque.appendleft: a full deque discards the item at its right end
AppendLeft(store, item) ==
    IF Len(store) >= MAX_STORED_ARTICLES
    THEN <<item>> \o SubSeq(store, 1, MAX_STORED_ARTICLES - 1)
    ELSE <<item>> \o store

\* news_service.py lines 68-73: the trim after the insertions
Trim(store) ==
    IF Len(store) > MAX_STORED_ARTICLES
    THEN SubSeq(store, 1, MAX_STORED_ARTICLES)
    ELSE store

RECURSIVE AppendAll(_, _, _)
AppendAll(store, items, i) ==
    IF i > Len(items) THEN store
    ELSE AppendAll(AppendLeft(store, items[i]), items, i + 1)

RECURSIVE Reverse(_)
Reverse(s) == IF Len(s) = 0 THEN <<>> ELSE Append(Reverse(Tail(s)), Head(s))

\* mutant of InsertNewItems: a plain list takes the items and nothing trims it
InsertNewItemsUnbounded(store, items) == Reverse(items) \o store

\* news_service.py lines 56-73: what one cycle does to the store
InsertNewItems(store, items) ==
    IF Len(items) = 0 THEN store ELSE Trim(AppendAll(store, items, 1))

Ids(items) == { items[i].id : i \in 1..Len(items) }

(***************************************************************************)
(* The listing queries of NewsService.  A query either raises or returns a *)
(* list.                                                                   *)
(***************************************************************************)
Raised == [raised |-> TRUE, items |-> <<>>]
Returned(items) == [raised |-> FALSE, items |-> items]

\* datetime comparison: an offset-naive and an offset-aware value do not compare
\* (TypeError); sorted() compares across the two kinds as soon as both are present
MixedAwareness(items) ==
    \E i, j \in 1..Len(items) : items[i].published.aware /\ ~items[j].published.aware

\* x is placed behind every element whose key is at least its own: the sort is
\* stable, also under reverse=True
RECURSIVE InsertDesc(_, _)
InsertDesc(sorted, x) ==
    IF Len(sorted) = 0 THEN <<x>>
    ELSE IF Head(sorted).published.t >= x.published.t
         THEN <<Head(sorted)>> \o InsertDesc(Tail(sorted), x)
         ELSE <<x>> \o sorted

RECURSIVE SortDesc(_, _)
SortDesc(items, i) ==
    IF i = 0 THEN <<>> ELSE InsertDesc(SortDesc(items, i - 1), items[i])

\* sorted(items, key=lambda x: x.published, reverse=True)
SortedByPublished(items) ==
    IF MixedAwareness(items) THEN Raised ELSE Returned(SortDesc(items, Len(items)))

\* a[:k] of Python, for any integer k
SlicePrefix(a, k) ==
    LET stop == IF k >= 0 THEN (IF k < Len(a) THEN k ELSE Len(a))
                ELSE (IF Len(a) + k > 0 THEN Len(a) + k ELSE 0)
    IN  SubSeq(a, 1, stop)

get_all_news == SortedByPublished(news_store)

\* the characters of the texts of Entries
Chars(text) ==
    CASE text = "alpha" -> << "a", "l", "p", "h", "a" >>
      [] text = "Alpha" -> << "A", "l", "p", "h", "a" >>
      [] text = "one" -> << "o", "n", "e" >>
      [] text = "gamma" -> << "g", "a", "m", "m", "a" >>
      [] OTHER -> << >>

\* str.lower() on one character
LowerChar(c) ==
    CASE c = "A" -> "a" [] c = "L" -> "l" [] c = "N" -> "n" [] c = "E" -> "e"
      [] OTHER -> c

\* str.lower()
Lower(chars) == [ i \in 1..Len(chars) |-> LowerChar(chars[i]) ]

\* the operator "in" of two strings: needle is a substring of hay
Contains(hay, needle) ==
    \E k \in 0..(Len(hay) - Len(needle)) :
        \A i \in 1..Len(needle) : hay[k + i] = needle[i]

\* the keywords passed to search_news
Keywords == { << >>, << "A", "L" >>, << "a", "l", "p", "h", "a" >>, << "N", "e" >>, << "z" >> }

\* lines 105-106: item.title and keyword_lower in item.title.lower()
FieldMatches(field, keyword_lower) ==
    field # "" /\ Contains(Lower(Chars(field)), keyword_lower)

\* the list comprehension of lines 103-107
RECURSIVE MatchingItems(_, _, _)
MatchingItems(store, keyword_lower, i) ==
    IF i > Len(store) THEN <<>>
    ELSE IF \/ FieldMatches(store[i].title, keyword_lower)
            \/ FieldMatches(store[i].summary, keyword_lower)
         THEN <<store[i]>> \o MatchingItems(store, keyword_lower, i + 1)
         ELSE MatchingItems(store, keyword_lower, i + 1)

\* search_news, lines 97-108
search_news(keyword) == SortedByPublished(MatchingItems(news_store, Lower(keyword), 1))

get_latest_news(count) ==
    LET sorted_news == SortedByPublished(news_store)
    IN  IF sorted_news.raised THEN Raised
        ELSE LET n == IF count < Len(sorted_news.items) THEN count ELSE Len(sorted_news.items)
             IN  Returned(SlicePrefix(sorted_news.items, n))

(***************************************************************************)
(* The poller: one cycle of _rss_poller.                                   *)
(***************************************************************************)
Bump(bag, items) ==
    [ g \in DOMAIN bag |->
        bag[g] + Cardinality({ i \in 1..Len(items) : items[i].id = g }) ]

\* the entries for which the embedding provider can be asked, and 0 for no failure
FailPoints(f) == { 0 } \cup { i \in 1..Len(f) : HasText(f[i]) }

\* the raw feeds the transport delivers while the task is started and stopped
PollEntries == { e \in Entries : e.link \in { "l1", "l3" } }
PollFeeds == SeqsUpTo(PollEntries, MaxFeedLen)

\* client.get answers 200: the feed is parsed and processed up to the close of the client
FetchOkFrom(feeds) ==
    /\ pc = "get"
    /\ ~cancel_req
    /\ \E f \in feeds : \E failAt \in FailPoints(f) :
         LET r == ProcessFeed(f, failAt, now)
         IN  /\ latest_hash' = r.hash
             /\ last_fetch_time' = r.time
             /\ seen_ids' = r.seen
             /\ fresh_items' = r.result
             /\ fetch_raised' = r.raised
             /\ failed_entry' = r.failed
             /\ feed' = Some(f)
             /\ repeat' = (feed = Some(f))
             /\ emitted' = Bump(emitted, r.result)
    /\ response' = "ok"
    /\ pc' = "closing"
    /\ UNCHANGED <<news_store, now, inserted_log>>
    /\ UNCHANGED taskVars
    /\ UNCHANGED nonNewsVars

FetchOk == FetchOkFrom(Feeds)

PollFetchOk == FetchOkFrom(PollFeeds)

\* client.get answers another status, times out or raises: return []
FetchFail ==
    /\ pc = "get"
    /\ ~cancel_req
    /\ LET r == FailedFetch
       IN  /\ latest_hash' = r.hash
           /\ last_fetch_time' = r.time
           /\ seen_ids' = r.seen
           /\ fresh_items' = r.result
    /\ response' = "failed"
    /\ pc' = "closing"
    /\ UNCHANGED <<news_store, now, feed, repeat, emitted, inserted_log, fetch_raised,
                   failed_entry>>
    /\ UNCHANGED taskVars
    /\ UNCHANGED nonNewsVars

\* mutant of InsertLoopAwaits: the send of lines 63-66 is awaited after every appendleft
InsertLoopAwaitsSend == TRUE

\* news_service.py lines 59-66: whether the body of the insert loop awaits;
\* the only await in it, the Telegram send, is commented out
InsertLoopAwaits == FALSE

\* the client is closed, fetch_feed returns and the poller inserts the new
\* items; the task is suspended inside the loop ("sending") only where the
\* loop body awaits
Insert ==
    /\ pc \in { "closing", "sending" }
    /\ ~cancel_req
    /\ LET n == IF InsertLoopAwaits /\ Len(fresh_items) > 1 THEN 1 ELSE Len(fresh_items)
           batch == SubSeq(fresh_items, 1, n)
           rest == SubSeq(fresh_items, n + 1, Len(fresh_items))
       IN  IF Len(rest) = 0
           THEN /\ news_store' = InsertNewItems(news_store, batch)
                /\ inserted_log' = inserted_log \o batch
                /\ fresh_items' = <<>>
                /\ response' = "none"
                /\ repeat' = FALSE
                /\ fetch_raised' = FALSE
                /\ failed_entry' = 0
                /\ pc' = "sleep"
           ELSE /\ news_store' = AppendAll(news_store, batch, 1)
                /\ inserted_log' = inserted_log \o batch
                /\ fresh_items' = rest
                /\ pc' = "sending"
                /\ UNCHANGED <<response, repeat, fetch_raised, failed_entry>>
    /\ UNCHANGED <<latest_hash, last_fetch_time, seen_ids, now, feed, emitted>>
    /\ UNCHANGED taskVars
    /\ UNCHANGED nonNewsVars

\* mutant of AfterCycleError: the exception leaves _rss_poller and the task is done
AfterCycleErrorTaskEnds == "done"

\* news_service.py lines 75-78: the handler logs the exception and the loop
\* goes on to its sleep
AfterCycleError == "sleep"

\* an exception reaches the handler of the poll loop: fetch_feed raises, as
\* the mock of test_rss_poller_error_handling does
CycleError ==
    /\ pc = "get"
    /\ ~cancel_req
    /\ pc' = AfterCycleError
    /\ UNCHANGED <<latest_hash, last_fetch_time, seen_ids, news_store, fresh_items,
                   response, now, feed, repeat, emitted, inserted_log, fetch_raised, failed_entry>>
    /\ UNCHANGED taskVars
    /\ UNCHANGED nonNewsVars

\* asyncio.sleep(POLL_INTERVAL_SECONDS)
Sleep ==
    /\ pc = "sleep"
    /\ ~cancel_req
    /\ now < MaxTime
    /\ now' = now + 1
    /\ pc' = "get"
    /\ UNCHANGED <<latest_hash, last_fetch_time, seen_ids, news_store, fresh_items,
                   response, feed, repeat, emitted, inserted_log, fetch_raised, failed_entry>>
    /\ UNCHANGED taskVars
    /\ UNCHANGED nonNewsVars

(***************************************************************************)
(* The life of the polling task.  start_polling and stop_polling are       *)
(* called one after the other, as the application's lifespan and the tests *)
(* call them.  cancel() makes the task raise CancelledError at the await   *)
(* it is suspended at; no handler of the poller or of fetch_feed catches   *)
(* it, so the task ends there.                                             *)
(***************************************************************************)
TaskAlive(p) == p # "none" /\ p # "done"

\* mutant of ShouldCreate: start_polling creates a task whatever the old one does
ShouldCreateAlways(p) == TRUE

\* line 36: self._polling_task is None or self._polling_task.done()
ShouldCreate(p) == p = "none" \/ p = "done"

\* start_polling, lines 34-37
StartPolling ==
    /\ stop_pc = "idle"
    /\ starts < MaxStarts
    /\ starts' = starts + 1
    /\ api_log' = "start"
    /\ IF ShouldCreate(pc)
       THEN /\ pc' = "get"
            /\ cancel_req' = FALSE
            /\ orphans' = IF TaskAlive(pc) THEN orphans + 1 ELSE orphans
            /\ fresh_items' = <<>>
            /\ response' = "none"
            /\ repeat' = FALSE
            /\ fetch_raised' = FALSE
            /\ failed_entry' = 0
       ELSE UNCHANGED <<pc, cancel_req, orphans, fresh_items, response, repeat,
                        fetch_raised, failed_entry>>
    /\ UNCHANGED <<latest_hash, last_fetch_time, seen_ids, news_store, now, feed,
                   emitted, inserted_log, stop_pc>>
    /\ UNCHANGED nonNewsVars

\* stop_polling, lines 39-44: cancel() and the await of the task, or the
\* return when there is no task to stop
StopPolling ==
    /\ stop_pc = "idle"
    /\ IF TaskAlive(pc)
       THEN cancel_req' = TRUE /\ stop_pc' = "awaiting" /\ UNCHANGED api_log
       ELSE api_log' = "stop" /\ UNCHANGED <<cancel_req, stop_pc>>
    /\ UNCHANGED <<latest_hash, last_fetch_time, seen_ids, news_store, pc, fresh_items,
                   response, now, feed, repeat, emitted, inserted_log, fetch_raised,
                   failed_entry, starts, orphans>>
    /\ UNCHANGED nonNewsVars

\* the task is resumed with CancelledError and ends; its locals are gone
TaskCancelled ==
    /\ TaskAlive(pc)
    /\ cancel_req
    /\ pc' = "done"
    /\ fresh_items' = <<>>
    /\ response' = "none"
    /\ repeat' = FALSE
    /\ fetch_raised' = FALSE
    /\ failed_entry' = 0
    /\ UNCHANGED <<latest_hash, last_fetch_time, seen_ids, news_store, now, feed,
                   emitted, inserted_log>>
    /\ UNCHANGED taskVars
    /\ UNCHANGED nonNewsVars

\* stop_polling, lines 44-46: the await ends with CancelledError, which is passed over
StopReturn ==
    /\ stop_pc = "awaiting"
    /\ pc = "done"
    /\ stop_pc' = "idle"
    /\ api_log' = "stop"
    /\ UNCHANGED <<latest_hash, last_fetch_time, seen_ids, news_store, pc, fresh_items,
                   response, now, feed, repeat, emitted, inserted_log, fetch_raised,
                   failed_entry, cancel_req, starts, orphans>>
    /\ UNCHANGED nonNewsVars

\* get_feed_status, lines 130-147: the sort of a non-empty store comes first
get_feed_status ==
    IF Len(news_store) > 0 /\ SortedByPublished(news_store).raised
    THEN [raised |-> TRUE]
    ELSE [raised |-> FALSE,
          total_articles_stored |-> Len(news_store),
          unique_articles_seen |-> Cardinality(seen_ids),
          latest_content_hash |-> latest_hash,
          last_fetch_time |-> last_fetch_time,
          latest_article |-> IF Len(news_store) > 0
                             THEN Some(Head(SortedByPublished(news_store).items))
                             ELSE NoneValue,
          polling_active |-> (pc # "none" /\ pc # "done")]

\* NewsService.__init__: the store and the FeedState are empty
InitStore ==
    /\ latest_hash = NoHash
    /\ last_fetch_time = NoneValue
    /\ seen_ids = {}
    /\ news_store = <<>>
    /\ fresh_items = <<>>
    /\ response = "none"
    /\ now = 0
    /\ feed = NoneValue
    /\ repeat = FALSE
    /\ emitted = [ g \in Guids |-> 0 ]
    /\ inserted_log = <<>>
    /\ fetch_raised = FALSE
    /\ failed_entry = 0
    /\ cancel_req = FALSE
    /\ stop_pc = "idle"
    /\ orphans = 0

\* the service as the application's lifespan has started it: the task runs
InitNews ==
    /\ InitStore
    /\ pc = "get"
    /\ api_log = "start"
    /\ starts = 1

\* the service as constructed: no task yet
InitNewsIdle ==
    /\ InitStore
    /\ pc = "none"
    /\ api_log = "none"
    /\ starts = 0

(***************************************************************************)
(* The clustering coordinator, NewsClusteringService.  Every operation     *)
(* runs under the coordinator's lock and is one step.                      *)
(***************************************************************************)
\* the ids of the items handed to the coordinator
CIds == { "a", "b", "c" }

\* what an item's embedding can be: None, a float32 vector of dimension 384
\* ("ok"), a vector with a NaN component, a vector of another dimension, or a
\* value that is no numpy array
EmbKinds == { "none", "ok", "nan", "baddim", "badtype" }

\* the topic ids the topic model hands out; -1 is the outlier topic
Topics == { -1, 0, 1 }

\* the snapshots passed to cluster_items: a dict from id to item
Snapshots == UNION { [ S -> EmbKinds ] : S \in SUBSET CIds }

\* mutant of should_cluster: the threshold has to be exceeded
should_cluster_strict(st) ==
    st.needs_clustering /\ st.items_since_last_cluster > CLUSTER_THRESHOLD

\* should_cluster, lines 32-37
should_cluster(st) ==
    st.needs_clustering /\ st.items_since_last_cluster >= CLUSTER_THRESHOLD

\* mutant of add_item: an item without embedding is counted like any other
add_item_counts_all(st, emb) ==
    [st EXCEPT !.needs_clustering = TRUE,
               !.items_since_last_cluster = st.items_since_last_cluster + 1]

\* mutant of add_item: the counter is incremented and the flag is not set
add_item_counts_only(st, emb) ==
    IF emb = "none" THEN st
    ELSE [st EXCEPT !.items_since_last_cluster = st.items_since_last_cluster + 1]

\* add_item, lines 39-48: the ClusteringState after the call
add_item(st, emb) ==
    IF emb = "none" THEN st
    ELSE [st EXCEPT !.needs_clustering = TRUE,
                    !.items_since_last_cluster = st.items_since_last_cluster + 1]

\* the ids of a snapshot whose embedding is a float32 vector of dimension 384
\* without NaN, as fetch_feed builds it (rss_fetcher.py, lines 75-76)
WellFormed(items) == { id \in DOMAIN items : items[id] = "ok" }

\* cluster_items, lines 58-74: the ids whose embedding is not None, is a numpy
\* array and has no NaN component
Collected(items) ==
    { id \in DOMAIN items : items[id] \notin { "none", "badtype", "nan" } }

\* mutant of Aborts: the call goes on with fewer than CLUSTER_THRESHOLD embeddings
AbortsOnlyWhenEmpty(items) ==
    \/ Cardinality(Collected(items)) = 0
    \/ \E id \in Collected(items) : items[id] = "baddim"

\* lines 76-92: the call returns before the topic model is invoked: too few
\* embeddings, or an array whose second dimension is missing or is not 384
Aborts(items) ==
    \/ Cardinality(Collected(items)) = 0
    \/ Cardinality(Collected(items)) < CLUSTER_THRESHOLD
    \/ \E id \in Collected(items) : items[id] = "baddim"

\* mutant of ResetState: the counter is not reset
ResetKeepsCounter(st) == [st EXCEPT !.needs_clustering = FALSE]

\* lines 105-107: the reset of the state after the assignments are stored
ResetState(st) ==
    [st EXCEPT !.needs_clustering = FALSE, !.items_since_last_cluster = 0]

\* lines 101-103: item_topics[id_] = topic for every clustered id
StoreTopics(old, topics) ==
    [ id \in DOMAIN old \cup DOMAIN topics |->
        IF id \in DOMAIN topics THEN topics[id] ELSE old[id] ]

\* mutant of AfterFitRaises: the state is reset although the fit failed
AfterFitRaisesResets(st, map) ==
    [state |-> ResetState(st), item_topics |-> map, returned |-> TRUE]

\* lines 120-128: the handlers of ValueError, MemoryError and Exception log and
\* fall through to the end of cluster_items; lines 101-107 were not reached
AfterFitRaises(st, map) ==
    [state |-> st, item_topics |-> map, returned |-> TRUE]

NoCall ==
    [op |-> "init", embedded |-> FALSE, outcome |-> "none", valid |-> {}, pending |-> 0,
     returned |-> TRUE, wellformed |-> 0]

AddItem ==
    /\ state.items_since_last_cluster < MaxAdds
    /\ embedded_adds < MaxAdds
    /\ \E id \in CIds, emb \in EmbKinds :
         /\ state' = add_item(state, emb)
         /\ last_call' = [NoCall EXCEPT !.op = "add_item", !.embedded = (emb # "none")]
         /\ embedded_adds' = IF emb # "none" THEN embedded_adds + 1 ELSE embedded_adds
    /\ UNCHANGED item_topics
    /\ UNCHANGED nonClusterVars

\* cluster_items returns before the topic model is called
ClusterAbort ==
    /\ \E items \in Snapshots :
         /\ Aborts(items)
         /\ last_call' = [NoCall EXCEPT !.op = "cluster_items", !.outcome = "aborted",
                                        !.valid = Collected(items),
                                        !.wellformed = Cardinality(WellFormed(items)),
                                        !.pending = state.items_since_last_cluster]
    /\ UNCHANGED <<state, item_topics, embedded_adds>>
    /\ UNCHANGED nonClusterVars

\* fit_transform raises ValueError, MemoryError or another exception
ClusterFail ==
    /\ \E items \in Snapshots :
         /\ ~Aborts(items)
         /\ LET r == AfterFitRaises(state, item_topics)
            IN  /\ state' = r.state
                /\ item_topics' = r.item_topics
                /\ last_call' = [NoCall EXCEPT !.op = "cluster_items", !.outcome = "failed",
                                               !.valid = Collected(items),
                                               !.wellformed = Cardinality(WellFormed(items)),
                                               !.pending = state.items_since_last_cluster,
                                               !.returned = r.returned]
    /\ UNCHANGED embedded_adds
    /\ UNCHANGED nonClusterVars

\* fit_transform returns one topic per collected item
ClusterSuccess ==
    /\ \E items \in Snapshots :
         /\ ~Aborts(items)
         /\ \E topics \in [ Collected(items) -> Topics ] :
              item_topics' = StoreTopics(item_topics, topics)
         /\ last_call' = [NoCall EXCEPT !.op = "cluster_items", !.outcome = "success",
                                        !.valid = Collected(items),
                                        !.wellformed = Cardinality(WellFormed(items)),
                                        !.pending = state.items_since_last_cluster]
    /\ state' = ResetState(state)
    /\ embedded_adds' = 0
    /\ UNCHANGED nonClusterVars

InitCluster ==
    /\ state = [last_cluster_time |-> NoneValue, items_since_last_cluster |-> 0,
                needs_clustering |-> FALSE]
    /\ item_topics = [ id \in {} |-> 0 ]
    /\ last_call = NoCall
    /\ embedded_adds = 0

(***************************************************************************)
(* The coordinator's lock.  cluster_items runs its whole body inside one   *)
(* "with self.lock" block; here the block is split at the call of the      *)
(* topic model and at every single assignment item_topics[id_] = topic, so *)
(* that another thread can run between them.  The topic views take the     *)
(* same lock.  The keywords a view adds come from the topic model and are  *)
(* not part of the model; a view's result is what it reads from            *)
(* item_topics.                                                            *)
(***************************************************************************)
EmptyMap == [ id \in {} |-> 0 ]

\* mutant of LockFree: the lock is handed out while another thread holds it
LockFreeAlways(holders) == TRUE

\* threading.Lock: "with self.lock" enters when no thread holds the lock
LockFree(holders) == holders = {}

TopicsOf(map) == { map[id] : id \in DOMAIN map }

\* get_all_topics, lines 130-140
get_all_topics(map) ==
    [ t \in TopicsOf(map) |-> { id \in DOMAIN map : map[id] = t } ]

\* get_all_topics_with_keywords, lines 142-159: the outlier topic has no keywords
get_all_topics_with_keywords(map) ==
    [ t \in TopicsOf(map) |->
        [news_ids |-> { id \in DOMAIN map : map[id] = t }, keyworded |-> t # -1] ]

\* mutant of get_topic_info: the outlier topic -1 is reported as not found
get_topic_info_hides_outliers(map, topic_id) ==
    IF topic_id \notin TopicsOf(map) \/ topic_id = -1 THEN NoneValue
    ELSE LET news_ids == { id \in DOMAIN map : map[id] = topic_id }
         IN  Some([topic_id |-> topic_id, news_count |-> Cardinality(news_ids),
                   news_ids |-> news_ids])

\* get_topic_info, lines 161-183
get_topic_info(map, topic_id) ==
    IF topic_id \notin TopicsOf(map) THEN NoneValue
    ELSE LET news_ids == { id \in DOMAIN map : map[id] = topic_id }
         IN  Some([topic_id |-> topic_id, news_count |-> Cardinality(news_ids),
                   news_ids |-> news_ids])

ViewKinds == { "get_all_topics", "get_all_topics_with_keywords", "get_topic_info" }

ViewResult(kind, topic_id, map) ==
    IF kind = "get_all_topics" THEN get_all_topics(map)
    ELSE IF kind = "get_all_topics_with_keywords" THEN get_all_topics_with_keywords(map)
    ELSE get_topic_info(map, topic_id)

NoView == [kind |-> "none", topic_id |-> 0, result |-> NoneValue,
           pre |-> EmptyMap, post |-> EmptyMap]

\* a thread calls cluster_items and arrives at "with self.lock", line 52
LockedClusterCall ==
    /\ cpc = "idle"
    /\ cpc' = "waiting"
    /\ UNCHANGED <<lock, fit_ids, todo, call_pre, call_post, view_log>>
    /\ UNCHANGED clusterVars
    /\ UNCHANGED <<sc_read, sc_result>>
    /\ UNCHANGED <<newsVars, searchVars>>

\* lines 52-92: the lock is taken, the embeddings are collected and checked
LockedClusterEnter ==
    /\ cpc = "waiting"
    /\ LockFree(lock)
    /\ lock' = lock \cup { "cluster" }
    /\ \E items \in Snapshots :
         IF Aborts(items)
         THEN cpc' = "exit" /\ fit_ids' = {}
         ELSE cpc' = "fit" /\ fit_ids' = Collected(items)
    /\ UNCHANGED <<todo, call_pre, call_post, view_log>>
    /\ UNCHANGED <<state, item_topics, last_call, embedded_adds>>
    /\ UNCHANGED <<sc_read, sc_result>>
    /\ UNCHANGED <<newsVars, searchVars>>

\* lines 94-99 and 120-128: fit_transform raises and the handler logs
LockedClusterFitRaises ==
    /\ cpc = "fit"
    /\ LET r == AfterFitRaises(state, item_topics)
       IN  state' = r.state /\ item_topics' = r.item_topics
    /\ cpc' = "exit"
    /\ fit_ids' = {}
    /\ UNCHANGED <<lock, todo, call_pre, call_post, view_log>>
    /\ UNCHANGED <<last_call, embedded_adds>>
    /\ UNCHANGED <<sc_read, sc_result>>
    /\ UNCHANGED <<newsVars, searchVars>>

\* lines 94-99: fit_transform returns one topic per id
LockedClusterFit ==
    /\ cpc = "fit"
    /\ \E topics \in [ fit_ids -> Topics ] :
         /\ todo' = topics
         /\ call_pre' = item_topics
         /\ call_post' = StoreTopics(item_topics, topics)
    /\ cpc' = "store"
    /\ fit_ids' = {}
    /\ UNCHANGED <<lock, view_log>>
    /\ UNCHANGED <<state, item_topics, last_call, embedded_adds>>
    /\ UNCHANGED <<sc_read, sc_result>>
    /\ UNCHANGED <<newsVars, searchVars>>

\* lines 101-103: one turn of the loop, item_topics[id_] = topic
LockedClusterStore ==
    /\ cpc = "store"
    /\ \E id \in DOMAIN todo :
         /\ item_topics' = StoreTopics(item_topics, [ i \in { id } |-> todo[id] ])
         /\ todo' = [ i \in DOMAIN todo \ { id } |-> todo[i] ]
    /\ UNCHANGED <<lock, cpc, fit_ids, call_pre, call_post, view_log>>
    /\ UNCHANGED <<state, last_call, embedded_adds>>
    /\ UNCHANGED <<sc_read, sc_result>>
    /\ UNCHANGED <<newsVars, searchVars>>

\* lines 105-107: after the last assignment the state is reset
LockedClusterReset ==
    /\ cpc = "store"
    /\ DOMAIN todo = {}
    /\ state' = ResetState(state)
    /\ cpc' = "exit"
    /\ call_pre' = EmptyMap
    /\ call_post' = EmptyMap
    /\ UNCHANGED <<lock, fit_ids, todo, view_log>>
    /\ UNCHANGED <<item_topics, last_call, embedded_adds>>
    /\ UNCHANGED <<sc_read, sc_result>>
    /\ UNCHANGED <<newsVars, searchVars>>

\* the end of the "with self.lock" block of cluster_items
LockedClusterExit ==
    /\ cpc = "exit"
    /\ lock' = lock \ { "cluster" }
    /\ cpc' = "idle"
    /\ UNCHANGED <<fit_ids, todo, call_pre, call_post, view_log>>
    /\ UNCHANGED clusterVars
    /\ UNCHANGED <<sc_read, sc_result>>
    /\ UNCHANGED <<newsVars, searchVars>>

\* a topic view takes the lock and computes its result from item_topics
ViewEnter ==
    /\ view_log.kind = "none"
    /\ LockFree(lock)
    /\ lock' = lock \cup { "view" }
    /\ \E kind \in ViewKinds, topic_id \in Topics :
         /\ kind # "get_topic_info" => topic_id = 0
         /\ view_log' = [kind |-> kind, topic_id |-> topic_id,
                         result |-> ViewResult(kind, topic_id, item_topics),
                         pre |-> IF cpc = "store" THEN call_pre ELSE item_topics,
                         post |-> IF cpc = "store" THEN call_post ELSE item_topics]
    /\ UNCHANGED <<cpc, fit_ids, todo, call_pre, call_post>>
    /\ UNCHANGED clusterVars
    /\ UNCHANGED <<sc_read, sc_result>>
    /\ UNCHANGED <<newsVars, searchVars>>

\* the view returns its result and releases the lock
ViewExit ==
    /\ view_log.kind # "none"
    /\ lock' = lock \ { "view" }
    /\ view_log' = NoView
    /\ UNCHANGED <<cpc, fit_ids, todo, call_pre, call_post>>
    /\ UNCHANGED clusterVars
    /\ UNCHANGED <<sc_read, sc_result>>
    /\ UNCHANGED <<newsVars, searchVars>>

\* add_item, lines 39-48, called by a thread of its own: the whole call is one
\* "with self.lock" block
LockedAddItem ==
    /\ LockFree(lock)
    /\ state.items_since_last_cluster < MaxAdds
    /\ \E emb \in { "none", "ok" } : state' = add_item(state, emb)
    /\ UNCHANGED <<item_topics, last_call, embedded_adds>>
    /\ UNCHANGED lockVars
    /\ UNCHANGED <<newsVars, searchVars>>

\* should_cluster, lines 32-37, called by a thread of its own: no lock is
\* taken; the left operand of "and" reads state.needs_clustering
ShouldClusterReadFlag ==
    /\ sc_read = NoneValue
    /\ IF state.needs_clustering
       THEN sc_read' = Some(TRUE) /\ UNCHANGED sc_result
       ELSE sc_read' = NoneValue /\ sc_result' = Some(FALSE)
    /\ UNCHANGED <<lock, cpc, fit_ids, todo, call_pre, call_post, view_log>>
    /\ UNCHANGED clusterVars
    /\ UNCHANGED <<newsVars, searchVars>>

\* the right operand reads state.items_since_last_cluster and the call returns
ShouldClusterReadCount ==
    /\ sc_read # NoneValue
    /\ sc_result' = Some(state.items_since_last_cluster >= CLUSTER_THRESHOLD)
    /\ sc_read' = NoneValue
    /\ UNCHANGED <<lock, cpc, fit_ids, todo, call_pre, call_post, view_log>>
    /\ UNCHANGED clusterVars
    /\ UNCHANGED <<newsVars, searchVars>>

InitLock ==
    /\ lock = {}
    /\ cpc = "idle"
    /\ fit_ids = {}
    /\ todo = EmptyMap
    /\ call_pre = EmptyMap
    /\ call_post = EmptyMap
    /\ view_log = NoView
    /\ sc_read = NoneValue
    /\ sc_result = NoneValue

(***************************************************************************)
(* SemanticSearchService.search.  Scores are in thousandths: 0.7 is 700.   *)
(* A text is the set of its words (re.findall of \w+ on the lowercased     *)
(* text); a candidate carries, as sim, the cosine similarity of its        *)
(* embedding with the embedding of the query.                              *)
(***************************************************************************)
TITLE_WEIGHT == 700
SUMMARY_WEIGHT == 300
EXACT_MATCH_BOOST == 300

\* the longest list of articles passed to search
MaxArticles == 2

\* self.confidence_thresholds, sorted by threshold with reverse=True
confidence_thresholds ==
    << [threshold |-> 850, level |-> "very_strong"],
       [threshold |-> 700, level |-> "strong"],
       [threshold |-> 600, level |-> "possible"],
       [threshold |-> 0, level |-> "weak"] >>

Candidates ==
    { [id |-> "k1", title |-> { "x", "y" }, summary |-> {}, embedded |-> TRUE, sim |-> 400],
      [id |-> "k2", title |-> {}, summary |-> { "x", "y" }, embedded |-> TRUE, sim |-> 450],
      [id |-> "k3", title |-> { "x" }, summary |-> {}, embedded |-> FALSE, sim |-> 0],
      [id |-> "k4", title |-> {}, summary |-> {}, embedded |-> TRUE, sim |-> -200],
      [id |-> "k5", title |-> { "x" }, summary |-> { "y" }, embedded |-> TRUE, sim |-> 800] }

Queries == { {}, { "x" }, { "x", "y" } }

\* the values a caller passes as title_weight and as summary_weight
WeightArgs == { NoneValue, Some(0), Some(500) }

SearchInputs ==
    [ query : Queries,
      articles : SeqsUpTo(Candidates, MaxArticles),
      min_threshold : { -1000, 0, 500, 600 },
      title_weight : WeightArgs,
      summary_weight : WeightArgs,
      max_results : { 1, 10 } ]

\* lines 27-36: the share of the query's words found in the title and in the
\* summary, weighted with the class constants
calculate_exact_match_score(query, title, summary) ==
    IF query = {} THEN 0
    ELSE (Cardinality(query \cap title) * TITLE_WEIGHT
            + Cardinality(query \cap summary) * SUMMARY_WEIGHT) \div Cardinality(query)

\* lines 50-55: the weights of the call, each a fraction <<numerator, total>>;
\* the division raises ZeroDivisionError when the two weights add up to 0
NormalisedWeights(title_weight, summary_weight) ==
    LET t_weight == IF title_weight # NoneValue THEN title_weight[1] ELSE TITLE_WEIGHT
        s_weight == IF summary_weight # NoneValue THEN summary_weight[1] ELSE SUMMARY_WEIGHT
        total_weight == t_weight + s_weight
    IN  [raised |-> total_weight = 0,
         t_weight |-> <<t_weight, total_weight>>,
         s_weight |-> <<s_weight, total_weight>>]

\* lines 77-80
combined_score(query, item) ==
    LET boost == (calculate_exact_match_score(query, item.title, item.summary)
                    * EXACT_MATCH_BOOST) \div 1000
    IN  IF item.sim + boost > item.sim THEN item.sim + boost ELSE item.sim

\* lines 83-90: next() over the levels whose threshold the score reaches; the
\* generator is empty for a score below every threshold and next() raises
RECURSIVE NextLevel(_, _)
NextLevel(score, i) ==
    IF i > Len(confidence_thresholds) THEN "StopIteration"
    ELSE IF score >= confidence_thresholds[i].threshold THEN confidence_thresholds[i].level
    ELSE NextLevel(score, i + 1)

\* lines 63-105: the loop over the articles
RECURSIVE ScoreArticles(_, _, _, _, _)
ScoreArticles(query, articles, min_threshold, i, results) ==
    IF i > Len(articles) THEN [raised |-> "none", results |-> results]
    ELSE IF ~articles[i].embedded
         THEN ScoreArticles(query, articles, min_threshold, i + 1, results)
    ELSE LET score == combined_score(query, articles[i])
         IN  IF score < min_threshold
             THEN ScoreArticles(query, articles, min_threshold, i + 1, results)
             ELSE IF NextLevel(score, 1) = "StopIteration"
                  THEN [raised |-> "StopIteration", results |-> <<>>]
                  ELSE ScoreArticles(query, articles, min_threshold, i + 1,
                           Append(results, [news_item |-> articles[i],
                                            similarity_score |-> score,
                                            confidence |-> NextLevel(score, 1)]))

\* list.sort(key=similarity_score, reverse=True): stable
RECURSIVE InsertByScore(_, _)
InsertByScore(sorted, x) ==
    IF Len(sorted) = 0 THEN <<x>>
    ELSE IF Head(sorted).similarity_score >= x.similarity_score
         THEN <<Head(sorted)>> \o InsertByScore(Tail(sorted), x)
         ELSE <<x>> \o sorted

RECURSIVE SortByScore(_, _)
SortByScore(results, i) ==
    IF i = 0 THEN <<>> ELSE InsertByScore(SortByScore(results, i - 1), results[i])

\* search, lines 38-108
search(in) ==
    IF NormalisedWeights(in.title_weight, in.summary_weight).raised
    THEN [raised |-> "ZeroDivisionError", results |-> <<>>]
    ELSE LET r == ScoreArticles(in.query, in.articles, in.min_threshold, 1, <<>>)
         IN  IF r.raised # "none" THEN r
             ELSE [raised |-> "none",
                   results |-> SlicePrefix(SortByScore(r.results, Len(r.results)),
                                           in.max_results)]

\* no search call was made
NoSearch ==
    [query |-> {}, articles |-> <<>>, min_threshold |-> 500, title_weight |-> NoneValue,
     summary_weight |-> NoneValue, max_results |-> 10]

\* the call of search with the arguments at hand
Search ==
    /\ s_out = NoneValue
    /\ s_out' = Some(search(s_in))
    /\ UNCHANGED <<s_in, query_log>>
    /\ UNCHANGED <<newsVars, clusterVars, lockVars>>

(***************************************************************************)
(* The read operations of NewsService as the request handlers call them.   *)
(* The handlers of routes.py are coroutines without an await of their own: *)
(* a query runs as one step of the event loop, between two await points of *)
(* the poller.                                                             *)
(***************************************************************************)
NoQuery == [kind |-> "none", raised |-> FALSE, at |-> "none", observed |-> {},
            outstanding |-> {}]

QueryKinds ==
    { "get_all_news", "get_latest_news", "search_news", "semantic_search",
      "get_feed_status" }

\* the queries that call sorted() on the store
SortingKinds == { "get_all_news", "get_latest_news", "search_news", "get_feed_status" }

\* mutant of AfterSorted: the sort is done in place, on the store itself
AfterSortedInPlace(store) ==
    IF SortedByPublished(store).raised THEN store ELSE SortedByPublished(store).items

\* news_service.py lines 82, 94, 108 and 137: sorted() builds a new list and
\* leaves its argument as it is
AfterSorted(store) == store

\* re.findall of \w+ on the lowercased text; the texts of Entries are one word
Words(text) == IF text = "" THEN {} ELSE { Lower(Chars(text)) }

\* the queries of the semantic search handler
SemanticQueries == { {}, { Lower(Chars("alpha")) } }

\* the cosine similarities, in thousandths, the embeddings can have
Similarities == { -200, 800 }

\* a stored item as search reads it
AsCandidate(item, sim) ==
    [id |-> item.id, title |-> Words(item.title), summary |-> Words(item.summary),
     embedded |-> item.embedding = "ok", sim |-> sim]

\* NewsService.semantic_search, lines 110-128: search on list(self.news_store)
semantic_search(query, min_threshold, sims) ==
    search([query |-> query,
            articles |-> [ i \in 1..Len(news_store) |-> AsCandidate(news_store[i], sims[i]) ],
            min_threshold |-> min_threshold,
            title_weight |-> NoneValue, summary_weight |-> NoneValue,
            max_results |-> 10])

\* the items of the running cycle's insert loop that are not in the store yet
Outstanding == IF pc = "sending" THEN Ids(fresh_items) ELSE {}

\* a request handler runs one of the queries; the handlers run one after the
\* other on the event loop, so no topic view is in the middle of its call
Query ==
    /\ view_log.kind = "none"
    /\ \E kind \in QueryKinds :
       \E count \in IF kind = "get_latest_news" THEN 1..MaxCount ELSE { 1 },
          keyword \in IF kind = "search_news" THEN Keywords ELSE { <<>> },
          query \in IF kind = "semantic_search" THEN SemanticQueries ELSE { {} },
          min_threshold \in IF kind = "semantic_search" THEN { -1000, 500 } ELSE { 500 },
          sims \in IF kind = "semantic_search"
                   THEN [ 1..Len(news_store) -> Similarities ]
                   ELSE { [ i \in 1..Len(news_store) |-> 800 ] } :
         LET raised ==
               CASE kind = "get_all_news" -> get_all_news.raised
                 [] kind = "get_latest_news" -> get_latest_news(count).raised
                 [] kind = "search_news" -> search_news(keyword).raised
                 [] kind = "get_feed_status" -> get_feed_status.raised
                 [] OTHER -> semantic_search(query, min_threshold, sims).raised # "none"
         IN  /\ query_log' = [kind |-> kind, raised |-> raised, at |-> pc,
                              observed |-> Ids(news_store), outstanding |-> Outstanding]
             /\ news_store' = IF kind \in SortingKinds THEN AfterSorted(news_store)
                                                       ELSE news_store
    /\ UNCHANGED <<latest_hash, last_fetch_time, seen_ids, pc, fresh_items, response, now,
                   feed, repeat, emitted, inserted_log, fetch_raised, failed_entry>>
    /\ UNCHANGED taskVars
    /\ UNCHANGED <<s_in, s_out>>
    /\ UNCHANGED <<clusterVars, lockVars>>

InitSearchIdle == s_in = NoSearch /\ s_out = NoneValue /\ query_log = NoQuery

(***************************************************************************)
(* The service at rest, for the read operations: a store the poller can    *)
(* have built out of single-entry feeds, with the FeedState of the last of *)
(* these polls, and a topic mapping successful cluster_items calls can     *)
(* have left.                                                              *)
(***************************************************************************)
StoredItems ==
    { MakeItem(e, t) : e \in { x \in Entries : ~GuidRaises(x) }, t \in 0..MaxTime }

ReachableStores ==
    { st \in SeqsUpTo(StoredItems, MAX_STORED_ARTICLES) :
        \A i, j \in 1..Len(st) : i # j => st[i].id # st[j].id }

\* the feed entry an item was made from
EntryOf(item) == CHOOSE e \in Entries : ~GuidRaises(e) /\ Guid(e) = item.id

\* the mapping before any cluster_items call, and after a successful call on
\* the items a and b
ReachableMappings == { EmptyMap } \cup [ { "a", "b" } -> Topics ]

ReachableClusteringStates ==
    { [last_cluster_time |-> NoneValue, items_since_last_cluster |-> n,
       needs_clustering |-> n > 0] : n \in { 0, CLUSTER_THRESHOLD } }

InitQuery ==
    /\ news_store \in ReachableStores
    /\ seen_ids = Ids(news_store)
    /\ feed = IF Len(news_store) = 0 THEN Some(<<>>) ELSE Some(<<EntryOf(news_store[1])>>)
    /\ latest_hash = generate_latest_hash(feed[1])
    /\ last_fetch_time = Some(MaxTime)
    /\ now = MaxTime
    /\ emitted = [ g \in Guids |-> IF g \in seen_ids THEN 1 ELSE 0 ]
    /\ inserted_log = Reverse(news_store)
    /\ fresh_items = <<>>
    /\ response = "none"
    /\ repeat = FALSE
    /\ fetch_raised = FALSE
    /\ failed_entry = 0
    /\ pc = "sleep"
    /\ cancel_req = FALSE
    /\ stop_pc = "idle"
    /\ orphans = 0
    /\ api_log = "start"
    /\ starts = 1
    /\ state \in ReachableClusteringStates
    /\ item_topics \in ReachableMappings
    /\ last_call = NoCall
    /\ embedded_adds = state.items_since_last_cluster
    /\ InitLock
    /\ InitSearchIdle

Init == InitNews /\ InitCluster /\ InitLock /\ InitSearchIdle

\* the initial states of SpecSearch: a search is about to be called
InitSearch ==
    /\ InitNews /\ InitCluster /\ InitLock
    /\ s_in \in SearchInputs
    /\ s_out = NoneValue
    /\ query_log = NoQuery

Next == FetchOk \/ FetchFail \/ Insert \/ CycleError \/ Sleep

Spec == Init /\ [][Next]_vars

NextCluster == AddItem \/ ClusterAbort \/ ClusterFail \/ ClusterSuccess

SpecCluster == Init /\ [][NextCluster]_vars

NextLock ==
    \/ LockedClusterCall \/ LockedClusterEnter \/ LockedClusterFitRaises \/ LockedClusterFit
    \/ LockedClusterStore \/ LockedClusterReset \/ LockedClusterExit
    \/ ViewEnter \/ ViewExit
    \/ LockedAddItem \/ ShouldClusterReadFlag \/ ShouldClusterReadCount

SpecLock == Init /\ [][NextLock]_vars

\* the service from its construction on, with the calls that start and stop the task
InitPoll == InitNewsIdle /\ InitCluster /\ InitLock /\ InitSearchIdle

NextPoll ==
    \/ StartPolling \/ StopPolling \/ TaskCancelled \/ StopReturn
    \/ PollFetchOk \/ FetchFail \/ Insert \/ CycleError \/ Sleep

SpecPoll == InitPoll /\ [][NextPoll]_vars

NextSearch == Search

\* the started service while it serves requests: the poller's cycles and the
\* query handlers take turns on the event loop
NextServe == PollFetchOk \/ FetchFail \/ Insert \/ CycleError \/ Sleep \/ Query

SpecServe == Init /\ [][NextServe]_vars

\* the read operations of the news service and the topic views, on a service at rest
NextQuery == Query \/ ViewEnter \/ ViewExit

SpecQuery == InitQuery /\ [][NextQuery]_vars

SpecSearch == InitSearch /\ [][NextSearch]_vars

(***************************************************************************)
(* Properties of the feed change tracker and of the store, under Spec.     *)
(***************************************************************************)

\* C1: over all fetch_feed calls sharing the FeedState, no item id is returned
\* more than once, neither by two calls nor twice by one call.
C1_NoIdReturnedTwice == \A g \in Guids : emitted[g] <= 1

\* C1 witness: a fetch returns new items from a feed that lists again, next to
\* them, an entry returned by an earlier call.
C1_Witness ==
    /\ pc = "closing" /\ response = "ok" /\ Len(fresh_items) > 0
    /\ \E i \in 1..Len(feed[1]) :
          /\ ~GuidRaises(feed[1][i])
          /\ Guid(feed[1][i]) \notin Ids(fresh_items)
          /\ emitted[Guid(feed[1][i])] = 1

\* C2: the store never holds more than MAX_STORED_ARTICLES items.
C2_StoreBounded == Len(news_store) <= MAX_STORED_ARTICLES

\* C2 witness: more items were inserted than the store holds, and it is full.
C2_Witness ==
    Len(inserted_log) > MAX_STORED_ARTICLES /\ Len(news_store) = MAX_STORED_ARTICLES

\* C3: no item is evicted while an item inserted before it is still in the store.
C3_EvictsOldestInserted ==
    \A i, j \in 1..Len(inserted_log) :
        (i < j /\ inserted_log[j].id \notin Ids(news_store))
            => inserted_log[i].id \notin Ids(news_store)

\* C3 witness: an item was evicted although its published time is later than
\* that of an item the store still holds.
C3_Witness ==
    \E i \in 1..Len(inserted_log), k \in 1..Len(news_store) :
        /\ inserted_log[i].id \notin Ids(news_store)
        /\ ~inserted_log[i].published.aware /\ ~news_store[k].published.aware
        /\ inserted_log[i].published.t > news_store[k].published.t

IsSortedDesc(items) ==
    \A i, j \in 1..Len(items) : i < j => items[i].published.t >= items[j].published.t

\* C4: for every reachable store get_all_news and get_latest_news(n) return the
\* items in non-increasing order of published, and get_latest_news(n), n >= 1,
\* is the first min(n, size) items of get_all_news.
C4_RecencySorted ==
    /\ ~get_all_news.raised
    /\ IsSortedDesc(get_all_news.items)
    /\ \A n \in 1..MaxCount :
          /\ ~get_latest_news(n).raised
          /\ get_latest_news(n).items =
                SubSeq(get_all_news.items, 1,
                       IF n < Len(news_store) THEN n ELSE Len(news_store))

\* C5: a successful fetch of the raw feed the previous successful fetch got
\* returns an empty list and leaves seen_ids unchanged.
C5_RepeatedFeedIsNoop ==
    [][ (response = "none" /\ response' = "ok" /\ feed # NoneValue /\ feed' = feed)
            => (fresh_items' = <<>> /\ seen_ids' = seen_ids) ]_vars

\* C5 witness: the fetch in flight got the feed of the previous successful
\* fetch, a feed with an entry that was returned as new before.
C5_Witness ==
    /\ pc = "closing" /\ response = "ok" /\ repeat
    /\ \E i \in 1..Len(feed[1]) :
          ~GuidRaises(feed[1][i]) /\ emitted[Guid(feed[1][i])] = 1

(***************************************************************************)
(* Properties of the clustering coordinator, under SpecCluster.            *)
(***************************************************************************)

\* C6: should_cluster() is true exactly when at least CLUSTER_THRESHOLD items
\* with an embedding were added since the coordinator was created or since the
\* last successful cluster_items: false below the threshold, true from the
\* T-th item on, and true until the next successful cluster_items.
C6_TriggerAtThreshold ==
    should_cluster(state) <=> embedded_adds >= CLUSTER_THRESHOLD

\* C6 witness: the trigger is still set after a cluster_items call that did
\* not succeed.
C6_Witness ==
    /\ last_call.op = "cluster_items" /\ last_call.outcome \in { "aborted", "failed" }
    /\ should_cluster(state)
    /\ embedded_adds = CLUSTER_THRESHOLD

\* C7: after a successful cluster_items the mapping holds exactly the ids of
\* the valid items of the snapshot of that call.
C7_MappingReplaced ==
    (last_call.op = "cluster_items" /\ last_call.outcome = "success")
        => DOMAIN item_topics = last_call.valid

\* C8: after a successful cluster_items the counter is 0, needs_clustering is
\* false and should_cluster() is false.
C8_SuccessResets ==
    (last_call.op = "cluster_items" /\ last_call.outcome = "success")
        => /\ state.items_since_last_cluster = 0
           /\ ~state.needs_clustering
           /\ ~should_cluster(state)

\* C8 witness: a cluster_items call succeeded while the counter was at or
\* above the threshold.
C8_Witness ==
    /\ last_call.op = "cluster_items" /\ last_call.outcome = "success"
    /\ last_call.pending >= CLUSTER_THRESHOLD

\* C9: between operations needs_clustering is false exactly when
\* items_since_last_cluster is 0.
C9_FlagIffCounter ==
    (~state.needs_clustering) <=> (state.items_since_last_cluster = 0)

\* C9 witness: items are pending after a cluster_items call that failed.
C9_Witness ==
    /\ last_call.op = "cluster_items" /\ last_call.outcome = "failed"
    /\ state.needs_clustering /\ state.items_since_last_cluster > 0

\* C10: add_item with an item without embedding leaves the counter, the flag
\* and the topic mapping as they were.
C10_AddWithoutEmbeddingIsNoop ==
    [][ (last_call'.op = "add_item" /\ ~last_call'.embedded)
            => (state' = state /\ item_topics' = item_topics) ]_vars

\* C10 witness: an item without embedding was added while items were pending
\* and topics assigned.
C10_Witness ==
    /\ last_call.op = "add_item" /\ ~last_call.embedded
    /\ state.items_since_last_cluster > 0
    /\ DOMAIN item_topics # {}

\* C11: when the topic model raises during cluster_items the call returns
\* normally and the topic mapping, items_since_last_cluster and
\* needs_clustering are what they were before the call, so should_cluster()
\* keeps its value.
C11_FitFailureLeavesState ==
    [][ (last_call'.op = "cluster_items" /\ last_call'.outcome = "failed")
            => /\ last_call'.returned
               /\ item_topics' = item_topics
               /\ state'.items_since_last_cluster = state.items_since_last_cluster
               /\ state'.needs_clustering = state.needs_clustering
               /\ should_cluster(state') = should_cluster(state) ]_vars

\* C11 witness: the topic model raised in a call made while the trigger was
\* set and topics were assigned; the trigger is still set.
C11_Witness ==
    /\ last_call.op = "cluster_items" /\ last_call.outcome = "failed"
    /\ last_call.pending >= CLUSTER_THRESHOLD
    /\ should_cluster(state)
    /\ DOMAIN item_topics # {}

(***************************************************************************)
(* Properties of the coordinator's lock, under SpecLock.                   *)
(***************************************************************************)

\* C12: a topic view running concurrently with cluster_items returns a result
\* computed from the mapping as it was entirely before or entirely after that
\* call, never from a mapping with only some of the new assignments written.
C12_ViewsSeeWholeMapping ==
    view_log.kind # "none"
        => \/ view_log.result = ViewResult(view_log.kind, view_log.topic_id, view_log.pre)
           \/ view_log.result = ViewResult(view_log.kind, view_log.topic_id, view_log.post)

\* C12 witness: a view is inside its lock block while a thread in
\* cluster_items waits for the lock, after an earlier call has assigned topics.
C12_Witness ==
    /\ view_log.kind # "none"
    /\ cpc = "waiting"
    /\ lock = { "view" }
    /\ Cardinality(DOMAIN item_topics) >= CLUSTER_THRESHOLD
    /\ Cardinality(TopicsOf(item_topics)) >= 2

(***************************************************************************)
(* Properties of the semantic search, under SpecSearch.                    *)
(***************************************************************************)
Searched == s_out # NoneValue

OneWeightOnly == (s_in.title_weight = NoneValue) # (s_in.summary_weight = NoneValue)

\* C13: a semantic search called with exactly one of title_weight and
\* summary_weight is rejected with a validation error and returns no results.
C13_OneWeightRejected ==
    (Searched /\ OneWeightOnly)
        => (s_out[1].raised = "ValidationError" /\ s_out[1].results = <<>>)

\* the weights the call is to work with: the supplied pair, else 0.7 and 0.3
EffectiveTitleWeight ==
    IF s_in.title_weight # NoneValue THEN s_in.title_weight[1] ELSE TITLE_WEIGHT
EffectiveSummaryWeight ==
    IF s_in.summary_weight # NoneValue THEN s_in.summary_weight[1] ELSE SUMMARY_WEIGHT

\* C14: the exact-match component of a candidate's score is
\* title_overlap * title_weight + summary_overlap * summary_weight with the
\* effective weights of the call (the supplied pair renormalised, else 0.7 and
\* 0.3).  With b the part of the score added to the similarity, q the number
\* of query words and t, s the weights: b * q * (t + s) = boost * (hits_t * t +
\* hits_s * s).
C14_ExactScoreUsesCallWeights ==
    (Searched /\ ~OneWeightOnly /\ s_out[1].raised = "none")
        => \A k \in 1..Len(s_out[1].results) :
              LET r == s_out[1].results[k]
                  b == r.similarity_score - r.news_item.sim
                  q == Cardinality(s_in.query)
                  t == EffectiveTitleWeight
                  w == EffectiveSummaryWeight
              IN  b * q * (t + w) =
                      EXACT_MATCH_BOOST
                          * (Cardinality(s_in.query \cap r.news_item.title) * t
                               + Cardinality(s_in.query \cap r.news_item.summary) * w)

\* the tier of a score: the highest threshold it clears, weak for any other
TierOf(score) ==
    IF score >= 850 THEN "very_strong"
    ELSE IF score >= 700 THEN "strong"
    ELSE IF score >= 600 THEN "possible"
    ELSE "weak"

\* the articles with an embedding whose combined score is at least min_threshold
Qualifying ==
    { i \in 1..Len(s_in.articles) :
        /\ s_in.articles[i].embedded
        /\ combined_score(s_in.query, s_in.articles[i]) >= s_in.min_threshold }

\* C15: every candidate whose combined score is at least min_threshold gets
\* the tier of the highest threshold its score clears, weak for every other
\* score, also below 0; the search never fails for lack of a matching tier.
C15_EveryScoreHasTier ==
    Searched
        => /\ s_out[1].raised # "StopIteration"
           /\ s_out[1].raised = "none"
                => /\ \A k \in 1..Len(s_out[1].results) :
                         s_out[1].results[k].confidence
                            = TierOf(s_out[1].results[k].similarity_score)
                   /\ Len(s_out[1].results) =
                         IF Cardinality(Qualifying) < s_in.max_results
                         THEN Cardinality(Qualifying) ELSE s_in.max_results

(***************************************************************************)
(* Properties of the polling task, under SpecPoll.                         *)
(***************************************************************************)

\* C16: no failure inside a poll cycle ends the poll loop: the task is done
\* only after cancel() was called on it by stop_polling, and as long as it is
\* not cancelled the loop moves from the fetch (failed or not) to the sleep
\* and from the sleep to the next fetch.
C16_OnlyCancelEndsLoop ==
    [][ /\ pc' = "done" => cancel_req'
        /\ (~cancel_req' /\ starts' = starts)
              => \/ pc' = pc
                 \/ pc = "get" /\ pc' \in { "closing", "sleep" }
                 \/ pc = "closing" /\ pc' = "sleep"
                 \/ pc = "sleep" /\ pc' = "get" ]_vars

\* C16 witness: the only task ever started is at the fetch of its second
\* cycle and no fetch has got a response yet: its first cycle failed.
C16_Witness ==
    /\ starts = 1 /\ pc = "get" /\ ~cancel_req
    /\ now = 1
    /\ latest_hash = NoHash

\* the polling tasks that are not done
LiveTasks == orphans + (IF TaskAlive(pc) THEN 1 ELSE 0)

\* C17: at most one polling task is active at any time: start_polling while
\* a task is running creates no second one, and start_polling when there is
\* no task or the task is done creates a new running one.
C17_AtMostOneTask ==
    [][ /\ LiveTasks' <= 1
        /\ starts' = starts + 1
              => IF TaskAlive(pc)
                 THEN pc' = pc /\ orphans' = orphans /\ cancel_req' = cancel_req
                 ELSE pc' = "get" /\ ~cancel_req' ]_vars

\* C17 witness: a second task runs after the first one, which had fetched
\* items, was stopped.
C17_Witness ==
    /\ starts = 2 /\ api_log = "start"
    /\ pc = "get" /\ ~cancel_req
    /\ now = 0 /\ seen_ids # {}

\* C18: when stop_polling has returned the polling task is done and
\* get_feed_status() reports polling_active false; polling_active is true
\* exactly when a polling task exists and is not done.
C18_StoppedMeansInactive ==
    /\ api_log = "stop"
          => /\ ~TaskAlive(pc)
             /\ ~get_feed_status.raised
             /\ ~get_feed_status.polling_active
    /\ ~get_feed_status.raised
          => (get_feed_status.polling_active <=> (pc # "none" /\ pc # "done"))

(***************************************************************************)
(* Properties of fetch_feed's error handling, under Spec.                  *)
(***************************************************************************)

\* C19: when the transport fails fetch_feed returns an empty list and leaves
\* latest_hash, last_fetch_time and seen_ids unchanged.
C19_TransportFailureIsNoop ==
    [][ (response = "none" /\ response' = "failed")
            => /\ fresh_items' = <<>>
               /\ latest_hash' = latest_hash
               /\ last_fetch_time' = last_fetch_time
               /\ seen_ids' = seen_ids ]_vars

\* C19 witness: the transport failed after an earlier fetch had recorded a
\* hash, a fetch time and seen ids.
C19_Witness ==
    /\ pc = "closing" /\ response = "failed"
    /\ HashTruthy(latest_hash) /\ last_fetch_time # NoneValue /\ seen_ids # {}

\* C20: an entry whose published time is missing or does not parse is admitted
\* as a new item with the current time as published; whenever fetch_feed
\* processes a feed without raising, each such entry not seen before is in
\* the returned list.
C20_UndatedEntryAdmitted ==
    [][ (/\ response = "none" /\ response' = "ok"
         /\ ~fetch_raised'
         /\ ~Unchanged(generate_latest_hash(feed'[1]), latest_hash))
            => \A i \in 1..Len(feed'[1]) :
                  (feed'[1][i].pub = 0 /\ Guid(feed'[1][i]) \notin seen_ids)
                     => \E k \in 1..Len(fresh_items') :
                           /\ fresh_items'[k].id = Guid(feed'[1][i])
                           /\ fresh_items'[k].published = [aware |-> TRUE, t |-> now] ]_vars

\* C20 witness: a fetch returns an undated entry next to a dated one.
C20_Witness ==
    /\ pc = "closing" /\ response = "ok" /\ Len(fresh_items) = 2
    /\ \E i, k \in 1..Len(fresh_items) :
          /\ fresh_items[i].published = [aware |-> TRUE, t |-> now]
          /\ ~fresh_items[k].published.aware

\* the stored items whose title or summary contains the keyword, case ignored
Matches(keyword) ==
    { i \in 1..Len(news_store) :
        \/ Contains(Lower(Chars(news_store[i].title)), Lower(keyword))
              /\ news_store[i].title # ""
        \/ Contains(Lower(Chars(news_store[i].summary)), Lower(keyword))
              /\ news_store[i].summary # "" }

\* C22: search_news(term) returns exactly the stored items whose title or
\* summary contains term as a case-insensitive substring, a missing field
\* never matching, in non-increasing order of published.
C22_SearchNewsMatchesSorted ==
    \A keyword \in Keywords :
        /\ ~search_news(keyword).raised
        /\ Ids(search_news(keyword).items) = { news_store[i].id : i \in Matches(keyword) }
        /\ Len(search_news(keyword).items) = Cardinality(Matches(keyword))
        /\ IsSortedDesc(search_news(keyword).items)

\* C21: when the embedding provider fails for one entry of a feed (every
\* entry of which has an id or a link), that entry is still returned as a
\* new item with no embedding, and every other new entry of the feed is
\* returned as well.
C21_EmbeddingFailureKeepsEntries ==
    [][ (/\ response = "none" /\ response' = "ok"
         /\ failed_entry' > 0
         /\ \A i \in 1..Len(feed'[1]) : ~GuidRaises(feed'[1][i]))
            => \A i \in 1..Len(feed'[1]) :
                  Guid(feed'[1][i]) \notin seen_ids
                     => \E k \in 1..Len(fresh_items') :
                           /\ fresh_items'[k].id = Guid(feed'[1][i])
                           /\ (i = failed_entry' => fresh_items'[k].embedding = "none") ]_vars

\* C30: an entry that has neither an id nor a link does not make the fetch
\* fail; when the embedding provider does not fail, every other entry of
\* the feed not seen before is returned.
C30_EntryWithoutIdOrLinkTolerated ==
    [][ (/\ response = "none" /\ response' = "ok"
         /\ failed_entry' = 0
         /\ ~Unchanged(generate_latest_hash(feed'[1]), latest_hash)
         /\ \E i \in 1..Len(feed'[1]) : GuidRaises(feed'[1][i]))
            => /\ ~fetch_raised'
               /\ \A i \in 1..Len(feed'[1]) :
                     (~GuidRaises(feed'[1][i]) /\ Guid(feed'[1][i]) \notin seen_ids)
                        => \E k \in 1..Len(fresh_items') :
                              fresh_items'[k].id = Guid(feed'[1][i]) ]_vars

\* the items the mapping currently assigns to the topic
AssignedTo(topic_id) == { id \in DOMAIN item_topics : item_topics[id] = topic_id }

\* C23: get_topic_info(topic_id) returns None exactly when no item is
\* currently assigned to topic_id, and otherwise the ids of all items
\* currently assigned to it, with news_count equal to their number.
C23_TopicInfoMatchesMapping ==
    view_log.kind = "get_topic_info"
        => /\ (view_log.result = NoneValue) <=> (AssignedTo(view_log.topic_id) = {})
           /\ AssignedTo(view_log.topic_id) # {}
                 => /\ view_log.result[1].news_ids = AssignedTo(view_log.topic_id)
                    /\ view_log.result[1].news_count
                          = Cardinality(AssignedTo(view_log.topic_id))

\* C23 witness: get_topic_info reports the outlier topic with two items
\* while another topic is in the mapping as well.
C23_Witness ==
    /\ view_log.kind = "get_topic_info"
    /\ view_log.topic_id = -1
    /\ view_log.result # NoneValue
    /\ view_log.result[1].news_count = 2
    /\ \E id \in DOMAIN item_topics : item_topics[id] # -1

\* C24: in every poll cycle each new item is inserted into the store and
\* then passed to the clustering service's add_item (and cluster_items is
\* called when should_cluster() is true): once a cycle has inserted an item
\* that has an embedding, the clustering service has been called.
C24_CycleFeedsClustering ==
    (pc = "sleep" /\ \E i \in 1..Len(inserted_log) : inserted_log[i].embedding = "ok")
        => /\ last_call.op # "init"
           /\ (state.items_since_last_cluster > 0 \/ DOMAIN item_topics # {})

\* C25: whenever the hash computed for a fetched feed equals the recorded
\* hash of the previous successful fetch, the empty-feed sentinel included,
\* fetch_feed returns an empty list and leaves latest_hash and
\* last_fetch_time as they were.
C25_EqualHashIsUntouched ==
    [][ (/\ response = "none" /\ response' = "ok"
         /\ generate_latest_hash(feed'[1]) = latest_hash)
            => /\ fresh_items' = <<>>
               /\ latest_hash' = latest_hash
               /\ last_fetch_time' = last_fetch_time ]_vars

\* C26: in cluster_items an item with a malformed embedding (wrong type,
\* dimension other than 384, a NaN component) is dropped on its own: when the
\* snapshot holds at least CLUSTER_THRESHOLD well-formed items the topic
\* model is still invoked.
C26_MalformedDroppedIndividually ==
    (last_call.op = "cluster_items" /\ last_call.wellformed >= CLUSTER_THRESHOLD)
        => last_call.outcome # "aborted"

\* C27: when cluster_items is called with a snapshot of fewer than
\* CLUSTER_THRESHOLD valid embedded items the topic model is not invoked and
\* item_topics, items_since_last_cluster and needs_clustering are left as
\* they were, so that a true should_cluster() stays true.
C27_TooFewItemsIsNoop ==
    [][ (last_call'.op = "cluster_items" /\ last_call'.wellformed < CLUSTER_THRESHOLD)
            => /\ last_call'.outcome = "aborted"
               /\ item_topics' = item_topics
               /\ state' = state
               /\ should_cluster(state) => should_cluster(state') ]_vars

\* C27 witness: a call with one well-formed item returned early while
\* should_cluster() is true, with assignments of an earlier call in place.
C27_Witness ==
    /\ last_call.op = "cluster_items" /\ last_call.outcome = "aborted"
    /\ last_call.wellformed = CLUSTER_THRESHOLD - 1
    /\ Cardinality(last_call.valid) = CLUSTER_THRESHOLD - 1
    /\ should_cluster(state)
    /\ DOMAIN item_topics # {}

\* C28: every successful cluster_items call sets last_cluster_time;
\* last_cluster_time is unset only while no cluster has ever succeeded.
C28_SuccessStampsTime ==
    (last_call.op = "cluster_items" /\ last_call.outcome = "success")
        => state.last_cluster_time # NoneValue

\* C29: every read or write of the ClusteringState and of item_topics by
\* add_item, cluster_items, should_cluster and the topic views happens while
\* the caller holds the service's lock: a thread between the reads of
\* should_cluster, inside cluster_items or inside a view is a holder of it.
C29_EveryAccessUnderLock ==
    /\ sc_read # NoneValue => "should_cluster" \in lock
    /\ view_log.kind # "none" => "view" \in lock
    /\ cpc \in { "fit", "store", "exit" } => "cluster" \in lock

\* C31: when the polling task is cancelled at an await point of a cycle (the
\* HTTP get, the closing of the HTTP client, the sleep), nothing is left
\* half done: every id the cycle added to seen_ids has its item in the
\* store, and the clustering lock is not held.
C31_CancelLeavesNothingHalfDone ==
    [][ (cancel_req /\ TaskAlive(pc) /\ pc' = "done")
            => /\ \A i \in 1..Len(fresh_items) :
                     fresh_items[i].id \in seen_ids' => fresh_items[i].id \in Ids(inserted_log')
               /\ lock' = {} ]_vars

\* the smaller of two numbers
Min(a, b) == IF a < b THEN a ELSE b

\* the positions of the qualifying articles whose combined score is at least v
QualifyingFrom(v) ==
    { i \in Qualifying : combined_score(s_in.query, s_in.articles[i]) >= v }

\* C32: the result of a semantic search is the list of the candidates that
\* have an embedding and a combined score of at least min_threshold, in
\* non-increasing order of score, cut to the first max_results; a candidate
\* without an embedding never appears.
C32_ResultIsTopQualifying ==
    Searched
        => /\ s_out[1].raised = "none"
           /\ \A k \in 1..Len(s_out[1].results) :
                 /\ s_out[1].results[k].news_item.embedded
                 /\ \E i \in Qualifying :
                       /\ s_in.articles[i] = s_out[1].results[k].news_item
                       /\ combined_score(s_in.query, s_in.articles[i])
                             = s_out[1].results[k].similarity_score
           /\ \A j, k \in 1..Len(s_out[1].results) :
                 j < k => s_out[1].results[j].similarity_score
                             >= s_out[1].results[k].similarity_score
           /\ Len(s_out[1].results) = Min(Cardinality(Qualifying), s_in.max_results)
           /\ \A i \in Qualifying :
                 LET v == combined_score(s_in.query, s_in.articles[i])
                 IN  Cardinality({ k \in 1..Len(s_out[1].results) :
                                     s_out[1].results[k].similarity_score >= v })
                        = Min(Cardinality(QualifyingFrom(v)), s_in.max_results)

\* C34: every id in seen_ids was returned as a new item by the fetch_feed
\* call that added it; no call adds an id to seen_ids and returns without
\* the item.
C34_SeenMeansReturned ==
    \A g \in seen_ids : emitted[g] >= 1

\* C35: after a fetch_feed call that got a 200 response and did not raise, the
\* guid of every entry of the feed is in seen_ids; an entry that first appears
\* below an unchanged newest entry is returned as new by that call.
C35_EveryEntryOfFeedSeen ==
    [][ (response = "none" /\ response' = "ok" /\ ~fetch_raised')
            => \A i \in 1..Len(feed'[1]) :
                  /\ Guid(feed'[1][i]) \in seen_ids'
                  /\ Guid(feed'[1][i]) \notin seen_ids
                        => \E k \in 1..Len(fresh_items') :
                              fresh_items'[k].id = Guid(feed'[1][i]) ]_vars

\* C36: for every store reachable through poll cycles, also one that mixes
\* items with a parsed published time and items with the fallback current
\* time, get_all_news, get_latest_news, search_news and get_feed_status
\* return a result instead of raising.
C36_QueriesNeverRaise ==
    /\ ~get_all_news.raised
    /\ \A n \in 1..MaxCount : ~get_latest_news(n).raised
    /\ \A keyword \in Keywords : ~search_news(keyword).raised
    /\ ~get_feed_status.raised

\* what the read operations are to leave alone: the store, the FeedState, the
\* ClusteringState and the topic mapping
QueryFrame == <<news_store, latest_hash, last_fetch_time, seen_ids, state, item_topics>>

\* C33: get_all_news, get_latest_news, search_news, semantic_search,
\* get_feed_status, get_all_topics, get_all_topics_with_keywords and
\* get_topic_info leave the contents and the order of the store, the
\* FeedState, the ClusteringState and the topic mapping unchanged.  (Every
\* step of SpecQuery is a call of one of them or the return of a view.)
C33_QueriesChangeNothing ==
    [][ QueryFrame' = QueryFrame ]_vars

\* C33 witness: a sorting query has returned on a store that is not in
\* published order while a get_topic_info call reports a topic with items.
C33_Witness ==
    /\ query_log.kind \in SortingKinds /\ ~query_log.raised
    /\ Len(news_store) >= 2
    /\ news_store[1].published.aware = news_store[2].published.aware
    /\ news_store[1].published.t < news_store[2].published.t
    /\ view_log.kind = "get_topic_info" /\ view_log.result # NoneValue
    /\ state.needs_clustering

\* C37: a query that a request handler runs interleaved with the poller never
\* observes the store holding only a part of the new items of one poll cycle:
\* when it runs, no item of a cycle is in the store while another item of
\* the same cycle is still to be inserted.
C37_QuerySeesWholeCycles ==
    query_log.kind # "none" => query_log.outstanding = {}

\* C37 witness: a query ran while the poller held the two new items of a
\* cycle, before their insertion, and saw neither; both are in the store now.
C37_Witness ==
    /\ query_log.kind = "get_latest_news" /\ query_log.at = "closing"
    /\ pc = "sleep"
    /\ Len(feed[1]) = 2
    /\ \A i \in 1..2 : /\ Guid(feed[1][i]) \notin query_log.observed
                        /\ Guid(feed[1][i]) \in Ids(news_store)

====
